---------------------------- MODULE Spec2Model ----------------------------
(***************************************************************************)
(* Model of testbed/command_executor/ssh.py: SSHCommandExecutor.execute    *)
(* and the stream pump log_file, together with the remote command and the  *)
(* two bounded output streams of the channel that exec_command opens; and  *)
(* of the physical-layer set-up in testbed/channel/wifi.py,                *)
(* WiFiChannel.__init__.                                                   *)
(*                                                                         *)
(* Strings are sequences of one-character strings, so that quoting and     *)
(* word splitting are computed character by character.                     *)
(***************************************************************************)
EXTENDS Naturals, Sequences, FiniteSets, TLC

(***************************************************************************)
(* Bounds of the model.                                                    *)
(***************************************************************************)
\* most lines the remote command writes in one call, both streams together
MaxLines == 4
\* lines one stream's buffer holds before the remote process blocks
BufCap == 1
\* sequential execute() calls on the one executor
MaxCalls == 2
\* streams of one call whose pump meets a failure
MaxFaults == 2
\* most lines of a remote command that never exits, whose pump threads
\* cannot all be started, or both of whose pumps meet a failure
MaxStuckLines == 2

(***************************************************************************)
(* Optional values (Python None).                                          *)
(***************************************************************************)
None == [some |-> FALSE, v |-> <<>>]
Some(x) == [some |-> TRUE, v |-> x]

(***************************************************************************)
(* Commands: a pre-joined string or a list of tokens.                      *)
(***************************************************************************)
Str(s) == [kind |-> "str", s |-> s, toks |-> <<>>]
List(t) == [kind |-> "list", s |-> <<>>, toks |-> t]

(***************************************************************************)
(* util.stringify_shell_arguments / util.split_shell_arguments: the shell  *)
(* argument codec (quote every token, join with single spaces; shell word  *)
(* splitting).                                                             *)
(***************************************************************************)
SafeChars ==
    { "a","b","c","d","e","f","g","h","i","j","k","l","m",
      "n","o","p","q","r","s","t","u","v","w","x","y","z",
      "A","B","C","D","E","F","G","H","I","J","K","L","M",
      "N","O","P","Q","R","S","T","U","V","W","X","Y","Z",
      "0","1","2","3","4","5","6","7","8","9",
      "_","@","%","+","=",":",",",".","/","-" }

Whitespace == { " ", "\t", "\n", "\r" }

RECURSIVE EscapeQuotes(_)
EscapeQuotes(s) ==
    IF s = <<>> THEN <<>>
    ELSE (IF Head(s) = "'" THEN <<"'", "\"", "'", "\"", "'">> ELSE <<Head(s)>>)
         \o EscapeQuotes(Tail(s))

\* quoting of one token: safe tokens are left alone, the empty token becomes
\* '', every other token is wrapped in single quotes
Quote(tok) ==
    IF tok = <<>> THEN <<"'", "'">>
    ELSE IF \A i \in 1..Len(tok) : tok[i] \in SafeChars THEN tok
    ELSE <<"'">> \o EscapeQuotes(tok) \o <<"'">>

RECURSIVE JoinQuoted(_)
JoinQuoted(toks) ==
    IF toks = <<>> THEN <<>>
    ELSE IF Len(toks) = 1 THEN Quote(toks[1])
    ELSE Quote(toks[1]) \o <<" ">> \o JoinQuoted(Tail(toks))

\* stringify: a string is returned as it is, a token list is quoted and joined
stringify_shell_arguments(command) ==
    IF command.kind = "str" THEN command.s ELSE JoinQuoted(command.toks)

\* the word splitter: q is the quoting state, cur the word being read,
\* inTok whether a word has begun, acc the words read so far
RECURSIVE SplitFrom(_, _, _, _, _, _)
SplitFrom(s, i, cur, inTok, q, acc) ==
    IF i > Len(s) THEN (IF inTok THEN Append(acc, cur) ELSE acc)
    ELSE LET c == s[i] IN
      CASE q = "single" ->
             IF c = "'" THEN SplitFrom(s, i + 1, cur, TRUE, "none", acc)
             ELSE SplitFrom(s, i + 1, Append(cur, c), TRUE, "single", acc)
        [] q = "double" ->
             IF c = "\"" THEN SplitFrom(s, i + 1, cur, TRUE, "none", acc)
             ELSE IF c = "\\" /\ i < Len(s) /\ s[i + 1] \in {"\"", "\\"}
               THEN SplitFrom(s, i + 2, Append(cur, s[i + 1]), TRUE, "double", acc)
             ELSE SplitFrom(s, i + 1, Append(cur, c), TRUE, "double", acc)
        [] OTHER ->
             IF c \in Whitespace
               THEN (IF inTok THEN SplitFrom(s, i + 1, <<>>, FALSE, "none", Append(acc, cur))
                     ELSE SplitFrom(s, i + 1, <<>>, FALSE, "none", acc))
             ELSE IF c = "'" THEN SplitFrom(s, i + 1, cur, TRUE, "single", acc)
             ELSE IF c = "\"" THEN SplitFrom(s, i + 1, cur, TRUE, "double", acc)
             ELSE IF c = "\\" /\ i < Len(s)
               THEN SplitFrom(s, i + 2, Append(cur, s[i + 1]), TRUE, "none", acc)
             ELSE SplitFrom(s, i + 1, Append(cur, c), TRUE, "none", acc)

\* split: a token list is returned as it is, a string is split into words
split_shell_arguments(command) ==
    IF command.kind = "list" THEN command.toks
    ELSE SplitFrom(command.s, 1, <<>>, FALSE, "none", <<>>)

(***************************************************************************)
(* String constants.                                                       *)
(***************************************************************************)
S_echo == <<"e", "c", "h", "o">>
S_hi == <<"h", "i">>
S_a_b == <<"a", " ", "b">>
S_echo_hi == <<"e", "c", "h", "o", " ", "h", "i">>
S_sudo == <<"s", "u", "d", "o">>
S_su == <<"s", "u">>
S_dash_u == <<"-", "u">>
S_dash_c == <<"-", "c">>
S_dash_s == <<"-", "s">>
S_alice == <<"a", "l", "i", "c", "e">>
S_bob == <<"b", "o", "b">>
S_bash == <<"/", "b", "i", "n", "/", "b", "a", "s", "h">>

(***************************************************************************)
(* execute(), lines 30-45: composition of the command line.                *)
(***************************************************************************)
\* the elevation flag consulted although no user is given
ComposeTokens_sudo_always(command, user, shell, sudo) ==
    LET line == stringify_shell_arguments(command) IN
    IF ~user.some /\ ~sudo
      THEN IF shell.some THEN List(<<shell.v, S_dash_c, line>>) ELSE Str(line)
      ELSE LET command_end == IF sudo THEN split_shell_arguments(Str(line))
                              ELSE <<S_dash_c, line>>
               prefix == IF sudo THEN <<S_sudo, S_dash_u, user.v>>
                         ELSE <<S_su, user.v>>
               flag == IF shell.some THEN <<S_dash_s, shell.v>> ELSE <<>>
           IN List(prefix \o flag \o command_end)

\* the sudo branch hands the joined line on as one token (no split)
ComposeTokens_no_split(command, user, shell, sudo) ==
    LET line == stringify_shell_arguments(command) IN
    IF ~user.some
      THEN IF shell.some THEN List(<<shell.v, S_dash_c, line>>) ELSE Str(line)
      ELSE LET command_end == IF sudo THEN <<line>>
                              ELSE <<S_dash_c, line>>
               prefix == IF sudo THEN <<S_sudo, S_dash_u, user.v>>
                         ELSE <<S_su, user.v>>
               flag == IF shell.some THEN <<S_dash_s, shell.v>> ELSE <<>>
           IN List(prefix \o flag \o command_end)

\* the su branch splits the joined line into several tokens after -c
ComposeTokens_su_split(command, user, shell, sudo) ==
    LET line == stringify_shell_arguments(command) IN
    IF ~user.some
      THEN IF shell.some THEN List(<<shell.v, S_dash_c, line>>) ELSE Str(line)
      ELSE LET command_end == IF sudo THEN split_shell_arguments(Str(line))
                              ELSE <<S_dash_c>> \o split_shell_arguments(Str(line))
               prefix == IF sudo THEN <<S_sudo, S_dash_u, user.v>>
                         ELSE <<S_su, user.v>>
               flag == IF shell.some THEN <<S_dash_s, shell.v>> ELSE <<>>
           IN List(prefix \o flag \o command_end)

\* the value of `command` before the last stringify (line 45)
ComposeTokens(command, user, shell, sudo) ==
    LET line == stringify_shell_arguments(command) IN
    IF ~user.some
      THEN IF shell.some THEN List(<<shell.v, S_dash_c, line>>) ELSE Str(line)
      ELSE LET command_end == IF sudo THEN split_shell_arguments(Str(line))
                              ELSE <<S_dash_c, line>>
               prefix == IF sudo THEN <<S_sudo, S_dash_u, user.v>>
                         ELSE <<S_su, user.v>>
               flag == IF shell.some THEN <<S_dash_s, shell.v>> ELSE <<>>
           IN List(prefix \o flag \o command_end)

\* the line handed to exec_command
Compose(command, user, shell, sudo) ==
    stringify_shell_arguments(ComposeTokens(command, user, shell, sudo))


(***************************************************************************)
(* The two worker threads of execute() and the channel's output streams.   *)
(***************************************************************************)
Threads == {"out_thread", "err_thread"}
Streams == {"stdout", "stderr"}

\* the two file arguments exchanged
ThreadArgs_swapped(t) ==
    IF t = "out_thread"
      THEN [level |-> "INFO", file |-> "stderr", logfile |-> "stdout"]
      ELSE [level |-> "ERROR", file |-> "stdout", logfile |-> "stderr"]

\* lines 52-53: the arguments each thread passes to log_file
ThreadArgs(t) ==
    IF t = "out_thread"
      THEN [level |-> "INFO", file |-> "stdout", logfile |-> "stdout"]
      ELSE [level |-> "ERROR", file |-> "stderr", logfile |-> "stderr"]

NoArgs == [level |-> "", file |-> "", logfile |-> ""]

\* each thread joined right after it is started
ThreadStatements_sequential ==
    << [op |-> "start", t |-> "out_thread"],
       [op |-> "join", t |-> "out_thread"],
       [op |-> "start", t |-> "err_thread"],
       [op |-> "join", t |-> "err_thread"] >>

\* the stderr thread started and joined before the stdout thread is started
ThreadStatements_err_first ==
    << [op |-> "start", t |-> "err_thread"],
       [op |-> "join", t |-> "err_thread"],
       [op |-> "start", t |-> "out_thread"],
       [op |-> "join", t |-> "out_thread"] >>

\* lines 55-58: the statements execute() runs once both threads exist
ThreadStatements ==
    << [op |-> "start", t |-> "out_thread"],
       [op |-> "start", t |-> "err_thread"],
       [op |-> "join", t |-> "out_thread"],
       [op |-> "join", t |-> "err_thread"] >>

\* the sink is not released when the loop is left by an exception
OnRaise_no_release(where) == "exit_file"

\* a sink that cannot be acquired ends the pump with its stream left open
OnRaise_no_close(where) ==
    IF where = "acquire" THEN "done" ELSE "exit_log"

\* line 9, the with statement: where a pump continues when an exception is
\* raised while acquiring the sink, reading the stream or writing to the sink
OnRaise(where) ==
    IF where = "acquire" THEN "exit_file" ELSE "exit_log"

\* util.LogFile.log: the sink receives the line as one record at the level
LogFile_log(records, level, line) ==
    Append(records, [level |-> level, line |-> line])

\* the i-th line the remote command writes to stream s
Line(s, i) == [stream |-> s, idx |-> i]
NoLine == [stream |-> "", idx |-> 0]

\* the records a sink holds after lines 1..n of stream s were logged at level
Records(level, s, n) == [i \in 1..n |-> [level |-> level, line |-> Line(s, i)]]

(***************************************************************************)
(* Inputs of one execute() call: the request, and the behaviour of the     *)
(* transport, the remote command and the sinks during the call.            *)
(***************************************************************************)
Commands == { List(<<S_echo, S_hi>>), Str(S_echo_hi), List(<<S_echo, S_a_b>>) }
Users == { None, Some(S_alice), Some(S_bob) }
Shells == { None, Some(S_bash) }
Requests == [command : Commands, user : Users, shell : Shells]
PlainRequest == [command |-> List(<<S_echo, S_hi>>), user |-> None, shell |-> None]

NoFault == [kind |-> "none", at |-> 0]
\* what can go wrong in the pump of a stream carrying n lines: the sink
\* cannot be acquired, the at-th read raises, the at-th sink write raises
Faults(n) ==
    { NoFault, [kind |-> "acquire", at |-> 0] }
    \cup { [kind |-> "read", at |-> k] : k \in 1..(n + 1) }
    \cup { [kind |-> "sink", at |-> k] : k \in 1..n }

\* the statuses the remote command may exit with
ExitStatuses == {0, 1}

\* the scripts of the remote command: the streams it writes a line to, in
\* the order it writes them
RECURSIVE Scripts(_)
Scripts(len) ==
    IF len = 0 THEN { <<>> }
    ELSE LET shorter == Scripts(len - 1) IN
         shorter \cup { Append(sc, s) : sc \in { x \in shorter : Len(x) = len - 1 }, s \in Streams }

\* the lines a script writes to stream s among its first k writes
Count(script, s, k) == Cardinality({ i \in 1..k : script[i] = s })

StreamEnvs ==
    UNION { { [transportFails |-> FALSE,
               hangs |-> FALSE,
               startFails |-> "none",
               script |-> sc,
               fault |-> [s \in Streams |-> IF s = "stdout" THEN fo ELSE fe]] :
                fo \in Faults(Count(sc, "stdout", Len(sc))),
                fe \in Faults(Count(sc, "stderr", Len(sc))) } :
            sc \in Scripts(MaxLines) }

QuietEnv ==
    [transportFails |-> FALSE, hangs |-> FALSE, startFails |-> "none",
     script |-> <<"stdout", "stderr">>,
     fault |-> [s \in Streams |-> NoFault]]

\* exec_command raises: the channel is never opened
BrokenEnv == [QuietEnv EXCEPT !.transportFails = TRUE]

Envs ==
    { e \in StreamEnvs :
        LET faulty == Cardinality({ s \in Streams : e.fault[s] # NoFault }) IN
        /\ faulty <= MaxFaults
        /\ faulty > 1 => Len(e.script) <= MaxStuckLines }
    \cup {BrokenEnv}

\* Thread.start() of one of the two threads raises (no thread can be
\* created); nothing else fails
StartFailEnvs ==
    { [e EXCEPT !.startFails = t] :
        t \in Threads,
        e \in { x \in Envs : /\ ~x.transportFails
                              /\ Len(x.script) <= MaxStuckLines
                              /\ \A s \in Streams : x.fault[s] = NoFault } }

\* the remote command writes its lines and then neither exits nor closes
\* its streams; the pumps may fail and Thread.start() may raise as in any
\* other call
HangingEnvs ==
    { [e EXCEPT !.hangs = TRUE] :
        e \in { x \in Envs \cup StartFailEnvs :
                  ~x.transportFails /\ Len(x.script) <= MaxStuckLines } }

\* the inputs execute() is called with
Inputs ==
    { [req |-> r, env |-> e] : r \in {PlainRequest},
                                e \in Envs \cup HangingEnvs \cup StartFailEnvs }
    \cup { [req |-> r, env |-> e] : r \in Requests, e \in {QuietEnv, BrokenEnv} }

VARIABLES
    sudo,        \* self.sudo, fixed by the constructor
    calls,       \* execute() calls made so far
    pc,          \* position of execute()
    stmt,        \* index of the next statement of lines 55-58
    req,         \* arguments of the current call
    env,         \* behaviour of transport, remote command and sinks
    composed,    \* value of `command` after line 43
    submitted,   \* lines handed to exec_command by the current call
    chan,        \* channel opened by the current call, 0 when none
    stdinCloses, \* stdin.close() calls
    rpos,        \* writes of its script the remote command has done
    buf,         \* unread lines, per stream
    eof,         \* whether the remote command has closed the stream
    exitStatus,  \* status the remote command exited with, None while it runs
    closes,      \* file.close() calls, per stream
    reads,       \* calls of next(file), per stream
    tpc,         \* position of each thread in log_file
    targs,       \* arguments of each thread
    tchan,       \* channel whose streams each thread was given
    held,        \* line each thread has read and not yet logged
    terr,        \* exception that ended each thread
    sink,        \* records received, per sink
    acq,         \* acquisitions (LogFile.__enter__), per sink
    rel,         \* releases (LogFile.__exit__), per sink
    writes,      \* calls of log.log, per sink
    result,      \* what execute() gave its caller
    old,         \* earlier calls that execute() left with a thread running
    wargs,       \* WiFiChannel: the arguments of the constructor
    wpc,         \* WiFiChannel: the next statement of the constructor
    phy          \* WiFiChannel: the Set calls made on wifi_phy_helper

wifiVars == <<wargs, wpc, phy>>
execVars == <<sudo, calls, pc, stmt, req, env, composed, submitted, chan, stdinCloses, result>>
mainVars == <<wifiVars, old, execVars>>
streamVars == <<rpos, buf, eof, exitStatus, closes, reads>>
threadVars == <<tpc, targs, tchan, held, terr>>
sinkVars == <<sink, acq, rel, writes>>
vars == <<mainVars, streamVars, threadVars, sinkVars>>

Pending == [kind |-> "pending", value |-> None, error |-> ""]

\* the state of an invocation before it has done anything
Fresh ==
    /\ stmt = 1
    /\ composed = Str(<<>>)
    /\ submitted = <<>>
    /\ chan = 0
    /\ stdinCloses = 0
    /\ rpos = 0
    /\ buf = [s \in Streams |-> <<>>]
    /\ eof = [s \in Streams |-> FALSE]
    /\ exitStatus = None
    /\ closes = [s \in Streams |-> 0]
    /\ reads = [s \in Streams |-> 0]
    /\ tpc = [t \in Threads |-> "none"]
    /\ targs = [t \in Threads |-> NoArgs]
    /\ tchan = [t \in Threads |-> 0]
    /\ held = [t \in Threads |-> NoLine]
    /\ terr = [t \in Threads |-> "none"]
    /\ sink = [s \in Streams |-> <<>>]
    /\ acq = [s \in Streams |-> 0]
    /\ rel = [s \in Streams |-> 0]
    /\ writes = [s \in Streams |-> 0]
    /\ result = Pending

(***************************************************************************)
(* WiFiChannel.__init__ (wifi.py, lines 120-153): the arguments.           *)
(***************************************************************************)
\* frequency in MHz, None by default
Frequencies == { None, Some(0), Some(2412), Some(5180) }
Channels == { 1, 6, 36 }
ChannelWidths == { 20, 40 }
Antennas == { 1, 2 }
TxPowers == { 20 }
WiFiArgs ==
    [frequency : Frequencies, channel : Channels, channel_width : ChannelWidths,
     antennas : Antennas, tx_power : TxPowers]

\* the defaults of the signature, line 120
DefaultWiFiArgs ==
    [frequency |-> None, channel |-> 1, channel_width |-> 40, antennas |-> 1,
     tx_power |-> 20]

\* no WiFiChannel is being constructed
NoWiFiChannel ==
    /\ wargs = DefaultWiFiArgs
    /\ wpc = "none"
    /\ phy = <<>>

\* lines 16-27: the executor after construction
Init ==
    /\ sudo \in BOOLEAN
    /\ calls = 0
    /\ pc = "ready"
    /\ req = PlainRequest
    /\ env = QuietEnv
    /\ Fresh
    /\ old = <<>>
    /\ NoWiFiChannel

(***************************************************************************)
(* execute(), lines 29-59.                                                 *)
(***************************************************************************)
Finished == pc \in {"returned", "raised"}

\* the caller calls execute(command, user, shell, ...)
CallWith(inputs) ==
    /\ pc = "ready"
    /\ calls < MaxCalls
    /\ \E in \in inputs :
         /\ req' = in.req
         /\ env' = in.env
    /\ calls' = calls + 1
    /\ pc' = "idle"
    /\ UNCHANGED <<wifiVars, old, sudo, stmt, composed, submitted, chan, stdinCloses, result>>
    /\ UNCHANGED <<streamVars, threadVars, sinkVars>>

\* the inputs of a call made while a thread of an earlier call is running:
\* the quiet command, a transport that fails, or the command of the earlier
\* call once more, its threads now starting
OverlapInputs ==
    { [req |-> PlainRequest, env |-> e] :
        e \in {QuietEnv, BrokenEnv}
               \cup { [old[i].env EXCEPT !.startFails = "none"] : i \in 1..Len(old) } }

Call == CallWith(IF old = <<>> THEN Inputs ELSE OverlapInputs)

\* a call during which nothing fails
CallNoFaults ==
    CallWith({ in \in Inputs :
                 /\ ~in.env.transportFails
                 /\ ~in.env.hangs
                 /\ in.env.startFails = "none"
                 /\ \A s \in Streams : in.env.fault[s] = NoFault })

\* the streams, threads and sinks of the current call
Frame ==
    [call |-> calls, env |-> env, rpos |-> rpos, buf |-> buf, eof |-> eof,
     closes |-> closes, reads |-> reads, tpc |-> tpc, targs |-> targs,
     tchan |-> tchan, held |-> held, terr |-> terr, sink |-> sink,
     acq |-> acq, rel |-> rel, writes |-> writes]

\* a thread of the call is running
FrameAlive(f) ==
    \E t \in Threads : f.tpc[t] \in {"enter", "loop", "log", "exit_log", "exit_file"}

\* the caller has the result of the call and the executor is ready for the
\* next call; the frame of the call is gone, except that a thread which
\* execute() left running goes on with its stream and its sink
CallerResumes ==
    /\ Finished
    /\ old' = IF FrameAlive(Frame) THEN Append(old, Frame) ELSE old
    /\ calls < MaxCalls
    /\ pc' = "ready"
    /\ req' = PlainRequest
    /\ env' = QuietEnv
    /\ stmt' = 1
    /\ composed' = Str(<<>>)
    /\ submitted' = <<>>
    /\ chan' = 0
    /\ stdinCloses' = 0
    /\ rpos' = 0
    /\ buf' = [s \in Streams |-> <<>>]
    /\ eof' = [s \in Streams |-> FALSE]
    /\ exitStatus' = None
    /\ closes' = [s \in Streams |-> 0]
    /\ reads' = [s \in Streams |-> 0]
    /\ tpc' = [t \in Threads |-> "none"]
    /\ targs' = [t \in Threads |-> NoArgs]
    /\ tchan' = [t \in Threads |-> 0]
    /\ held' = [t \in Threads |-> NoLine]
    /\ terr' = [t \in Threads |-> "none"]
    /\ sink' = [s \in Streams |-> <<>>]
    /\ acq' = [s \in Streams |-> 0]
    /\ rel' = [s \in Streams |-> 0]
    /\ writes' = [s \in Streams |-> 0]
    /\ result' = Pending
    /\ UNCHANGED <<wifiVars, sudo, calls>>

\* lines 30-43: the tokens of the command are composed; line 45 joins them
\* into the line that ExecCommand hands to the transport
ComposeStep ==
    /\ pc = "idle"
    /\ composed' = ComposeTokens(req.command, req.user, req.shell, sudo)
    /\ pc' = "composed"
    /\ UNCHANGED <<wifiVars, old, sudo, calls, stmt, req, env, submitted, chan, stdinCloses, result>>
    /\ UNCHANGED <<streamVars, threadVars, sinkVars>>

\* the error of exec_command caught and the call carried on
ExecCommand_swallowed ==
    /\ pc = "composed"
    /\ submitted' = Append(submitted, stringify_shell_arguments(composed))
    /\ pc' = "opened"
    /\ chan' = calls
    /\ UNCHANGED <<wifiVars, old, sudo, calls, stmt, req, env, composed, stdinCloses, result>>
    /\ UNCHANGED <<streamVars, threadVars, sinkVars>>

\* exec_command asked a second time after it has raised
ExecCommand_retry ==
    /\ pc = "composed"
    /\ submitted' = Append(submitted, stringify_shell_arguments(composed))
    /\ IF env.transportFails
         THEN /\ pc' = IF submitted = <<>> THEN "composed" ELSE "raised"
              /\ result' = IF submitted = <<>> THEN result
                            ELSE [kind |-> "raised", value |-> None, error |-> "transport"]
              /\ chan' = chan
         ELSE /\ pc' = "opened"
              /\ chan' = calls
              /\ result' = result
    /\ UNCHANGED <<wifiVars, old, sudo, calls, stmt, req, env, composed, stdinCloses>>
    /\ UNCHANGED <<streamVars, threadVars, sinkVars>>

\* line 48: exec_command opens the channel and starts the remote command,
\* or raises
ExecCommand ==
    /\ pc = "composed"
    /\ submitted' = Append(submitted, stringify_shell_arguments(composed))
    /\ IF env.transportFails
         THEN /\ pc' = "raised"
              /\ result' = [kind |-> "raised", value |-> None, error |-> "transport"]
              /\ chan' = chan
         ELSE /\ pc' = "opened"
              /\ chan' = calls
              /\ result' = result
    /\ UNCHANGED <<wifiVars, old, sudo, calls, stmt, req, env, composed, stdinCloses>>
    /\ UNCHANGED <<streamVars, threadVars, sinkVars>>

\* line 50 left out: the input stream stays open
CloseStdin_skipped ==
    /\ pc = "opened"
    /\ pc' = "stdin_closed"
    /\ UNCHANGED <<wifiVars, old, sudo, calls, stmt, req, env, composed, submitted, chan, stdinCloses, result>>
    /\ UNCHANGED <<streamVars, threadVars, sinkVars>>

\* line 50: stdin.close()
CloseStdin ==
    /\ pc = "opened"
    /\ stdinCloses' = stdinCloses + 1
    /\ pc' = "stdin_closed"
    /\ UNCHANGED <<wifiVars, old, sudo, calls, stmt, req, env, composed, submitted, chan, result>>
    /\ UNCHANGED <<streamVars, threadVars, sinkVars>>

\* the threads are given the streams of the first channel of the session
CreateThreads_first_channel ==
    /\ pc = "stdin_closed"
    /\ tpc' = [t \in Threads |-> "created"]
    /\ targs' = [t \in Threads |-> ThreadArgs(t)]
    /\ tchan' = [t \in Threads |-> 1]
    /\ pc' = "threads"
    /\ UNCHANGED <<wifiVars, old, sudo, calls, stmt, req, env, composed, submitted, chan, stdinCloses, result>>
    /\ UNCHANGED <<streamVars, held, terr, sinkVars>>

\* lines 52-53: the two Thread objects are created with the output streams
\* that exec_command returned to this call
CreateThreads ==
    /\ pc = "stdin_closed"
    /\ tpc' = [t \in Threads |-> "created"]
    /\ targs' = [t \in Threads |-> ThreadArgs(t)]
    /\ tchan' = [t \in Threads |-> chan]
    /\ pc' = "threads"
    /\ UNCHANGED <<wifiVars, old, sudo, calls, stmt, req, env, composed, submitted, chan, stdinCloses, result>>
    /\ UNCHANGED <<streamVars, held, terr, sinkVars>>

\* lines 55-56: Thread.start(); an exception of start() leaves execute()
\* at once, lines 58-59 are not reached
StartThread ==
    /\ pc = "threads"
    /\ stmt <= Len(ThreadStatements)
    /\ ThreadStatements[stmt].op = "start"
    /\ IF env.startFails = ThreadStatements[stmt].t
         THEN /\ pc' = "raised"
              /\ result' = [kind |-> "raised", value |-> None, error |-> "thread"]
              /\ UNCHANGED <<tpc, stmt>>
         ELSE /\ tpc' = [tpc EXCEPT ![ThreadStatements[stmt].t] = "enter"]
              /\ stmt' = stmt + 1
              /\ UNCHANGED <<pc, result>>
    /\ UNCHANGED <<wifiVars, old, sudo, calls, req, env, composed, submitted, chan, stdinCloses>>
    /\ UNCHANGED <<streamVars, targs, tchan, held, terr, sinkVars>>

\* lines 58-59: Thread.join() returns once the thread has ended
JoinThread ==
    /\ pc = "threads"
    /\ stmt <= Len(ThreadStatements)
    /\ ThreadStatements[stmt].op = "join"
    /\ tpc[ThreadStatements[stmt].t] = "done"
    /\ stmt' = stmt + 1
    /\ UNCHANGED <<wifiVars, old, sudo, calls, pc, req, env, composed, submitted, chan, stdinCloses, result>>
    /\ UNCHANGED <<streamVars, threadVars, sinkVars>>

\* line 59 is the last statement: execute() returns None
Return ==
    /\ pc = "threads"
    /\ stmt > Len(ThreadStatements)
    /\ pc' = "returned"
    /\ result' = [kind |-> "returned", value |-> None, error |-> ""]
    /\ UNCHANGED <<wifiVars, old, sudo, calls, stmt, req, env, composed, submitted, chan, stdinCloses>>
    /\ UNCHANGED <<streamVars, threadVars, sinkVars>>

(***************************************************************************)
(* The remote command: it writes the lines of its script one after the     *)
(* other, blocks while the buffer of the stream it writes to is full, and  *)
(* closes both streams and exits when it has written everything.           *)
(***************************************************************************)
\* lines the remote command has written to stream s, and will write in all
Written(s) == Count(env.script, s, rpos)
Total(s) == Count(env.script, s, Len(env.script))

RemoteWrite(s) ==
    /\ chan # 0
    /\ rpos < Len(env.script)
    /\ env.script[rpos + 1] = s
    /\ Len(buf[s]) < BufCap
    /\ buf' = [buf EXCEPT ![s] = Append(@, Line(s, Written(s) + 1))]
    /\ rpos' = rpos + 1
    /\ UNCHANGED <<mainVars, eof, exitStatus, closes, reads, threadVars, sinkVars>>

RemoteExit ==
    /\ chan # 0
    /\ ~env.hangs
    /\ rpos = Len(env.script)
    /\ \A s \in Streams : ~eof[s]
    /\ eof' = [s \in Streams |-> TRUE]
    /\ \E x \in ExitStatuses : exitStatus' = Some(x)
    /\ UNCHANGED <<mainVars, rpos, buf, closes, reads, threadVars, sinkVars>>

(***************************************************************************)
(* log_file, lines 8-11: one stream pump.                                  *)
(***************************************************************************)
\* line 9: the file is entered and the sink is acquired
PumpEnter(t) ==
    /\ tpc[t] = "enter"
    /\ LET k == targs[t].logfile IN
       IF env.fault[k].kind = "acquire"
         THEN /\ terr' = [terr EXCEPT ![t] = "acquire"]
              /\ tpc' = [tpc EXCEPT ![t] = OnRaise("acquire")]
              /\ acq' = acq
         ELSE /\ acq' = [acq EXCEPT ![k] = @ + 1]
              /\ tpc' = [tpc EXCEPT ![t] = "loop"]
              /\ terr' = terr
    /\ UNCHANGED <<mainVars, streamVars, targs, tchan, held, sink, rel, writes>>

\* line 10: the next line is read; the loop ends at end of stream
PumpRead(t) ==
    /\ tpc[t] = "loop"
    /\ LET s == targs[t].file IN
       \/ /\ env.fault[s] = [kind |-> "read", at |-> reads[s] + 1]
          /\ reads' = [reads EXCEPT ![s] = @ + 1]
          /\ terr' = [terr EXCEPT ![t] = "read"]
          /\ tpc' = [tpc EXCEPT ![t] = OnRaise("read")]
          /\ UNCHANGED <<buf, held>>
       \/ /\ env.fault[s] # [kind |-> "read", at |-> reads[s] + 1]
          /\ buf[s] # <<>>
          /\ reads' = [reads EXCEPT ![s] = @ + 1]
          /\ held' = [held EXCEPT ![t] = Head(buf[s])]
          /\ buf' = [buf EXCEPT ![s] = Tail(@)]
          /\ tpc' = [tpc EXCEPT ![t] = "log"]
          /\ terr' = terr
       \/ /\ env.fault[s] # [kind |-> "read", at |-> reads[s] + 1]
          /\ buf[s] = <<>>
          /\ eof[s]
          /\ reads' = [reads EXCEPT ![s] = @ + 1]
          /\ tpc' = [tpc EXCEPT ![t] = "exit_log"]
          /\ UNCHANGED <<buf, held, terr>>
    /\ UNCHANGED <<mainVars, rpos, eof, exitStatus, closes, targs, tchan, sinkVars>>

\* the stderr pump logs a line only once the stdout pump has ended
PumpLog_stdout_first(t) ==
    /\ tpc[t] = "log"
    /\ t = "err_thread" => tpc["out_thread"] = "done"
    /\ LET k == targs[t].logfile IN
       /\ writes' = [writes EXCEPT ![k] = @ + 1]
       /\ IF env.fault[k] = [kind |-> "sink", at |-> writes[k] + 1]
            THEN /\ terr' = [terr EXCEPT ![t] = "sink"]
                 /\ tpc' = [tpc EXCEPT ![t] = OnRaise("sink")]
                 /\ sink' = sink
            ELSE /\ sink' = [sink EXCEPT ![k] = LogFile_log(@, targs[t].level, held[t])]
                 /\ tpc' = [tpc EXCEPT ![t] = "loop"]
                 /\ terr' = terr
    /\ held' = [held EXCEPT ![t] = NoLine]
    /\ UNCHANGED <<mainVars, streamVars, targs, tchan, acq, rel>>

\* line 11: the line is written to the sink at the thread's level
PumpLog(t) ==
    /\ tpc[t] = "log"
    /\ LET k == targs[t].logfile IN
       /\ writes' = [writes EXCEPT ![k] = @ + 1]
       /\ IF env.fault[k] = [kind |-> "sink", at |-> writes[k] + 1]
            THEN /\ terr' = [terr EXCEPT ![t] = "sink"]
                 /\ tpc' = [tpc EXCEPT ![t] = OnRaise("sink")]
                 /\ sink' = sink
            ELSE /\ sink' = [sink EXCEPT ![k] = LogFile_log(@, targs[t].level, held[t])]
                 /\ tpc' = [tpc EXCEPT ![t] = "loop"]
                 /\ terr' = terr
    /\ held' = [held EXCEPT ![t] = NoLine]
    /\ UNCHANGED <<mainVars, streamVars, targs, tchan, acq, rel>>

\* line 9, leaving the with block: the sink is released
PumpExitLog(t) ==
    /\ tpc[t] = "exit_log"
    /\ rel' = [rel EXCEPT ![targs[t].logfile] = @ + 1]
    /\ tpc' = [tpc EXCEPT ![t] = "exit_file"]
    /\ UNCHANGED <<mainVars, streamVars, targs, tchan, held, terr, sink, acq, writes>>

\* line 9, leaving the with block: the file is closed and the thread ends
PumpExitFile(t) ==
    /\ tpc[t] = "exit_file"
    /\ closes' = [closes EXCEPT ![targs[t].file] = @ + 1]
    /\ tpc' = [tpc EXCEPT ![t] = "done"]
    /\ UNCHANGED <<mainVars, rpos, buf, eof, exitStatus, reads, targs, tchan, held, terr, sinkVars>>

Pump(t) ==
    \/ PumpEnter(t)
    \/ PumpRead(t)
    \/ PumpLog(t)
    \/ PumpExitLog(t)
    \/ PumpExitFile(t)

Remote == RemoteExit \/ \E s \in Streams : RemoteWrite(s)

(***************************************************************************)
(* The threads that execute() left running when it raised at line 56, and  *)
(* the remote commands they read from: the same steps as above, taken on   *)
(* the frame of the earlier call while later calls go on.                  *)
(***************************************************************************)
\* the next step of log_file (lines 8-11) in thread t of frame f
FramePump(f, t) ==
    LET s == f.targs[t].file
        k == f.targs[t].logfile
    IN CASE f.tpc[t] = "enter" ->
              { IF f.env.fault[k].kind = "acquire"
                  THEN [f EXCEPT !.terr[t] = "acquire", !.tpc[t] = OnRaise("acquire")]
                  ELSE [f EXCEPT !.acq[k] = @ + 1, !.tpc[t] = "loop"] }
         [] f.tpc[t] = "loop" ->
              IF f.env.fault[s] = [kind |-> "read", at |-> f.reads[s] + 1]
                THEN { [f EXCEPT !.reads[s] = @ + 1, !.terr[t] = "read",
                                 !.tpc[t] = OnRaise("read")] }
              ELSE IF f.buf[s] # <<>>
                THEN { [f EXCEPT !.reads[s] = @ + 1, !.held[t] = Head(f.buf[s]),
                                 !.buf[s] = Tail(@), !.tpc[t] = "log"] }
              ELSE IF f.eof[s]
                THEN { [f EXCEPT !.reads[s] = @ + 1, !.tpc[t] = "exit_log"] }
              ELSE {}
         [] f.tpc[t] = "log" ->
              { IF f.env.fault[k] = [kind |-> "sink", at |-> f.writes[k] + 1]
                  THEN [f EXCEPT !.writes[k] = @ + 1, !.terr[t] = "sink",
                                 !.tpc[t] = OnRaise("sink"), !.held[t] = NoLine]
                  ELSE [f EXCEPT !.writes[k] = @ + 1,
                                 !.sink[k] = LogFile_log(@, f.targs[t].level, f.held[t]),
                                 !.tpc[t] = "loop", !.held[t] = NoLine] }
         [] f.tpc[t] = "exit_log" ->
              { [f EXCEPT !.rel[k] = @ + 1, !.tpc[t] = "exit_file"] }
         [] f.tpc[t] = "exit_file" ->
              { [f EXCEPT !.closes[s] = @ + 1, !.tpc[t] = "done"] }
         [] OTHER -> {}

\* the next step of the remote command of frame f
FrameRemote(f) ==
    IF f.rpos < Len(f.env.script)
      THEN LET s == f.env.script[f.rpos + 1] IN
           IF Len(f.buf[s]) < BufCap
             THEN { [f EXCEPT !.buf[s] = Append(@, Line(s, Count(f.env.script, s, f.rpos) + 1)),
                              !.rpos = @ + 1] }
             ELSE {}
    ELSE IF ~f.env.hangs /\ \A s \in Streams : ~f.eof[s]
      THEN { [f EXCEPT !.eof = [s \in Streams |-> TRUE]] }
    ELSE {}

FrameSteps(f) == FrameRemote(f) \cup UNION { FramePump(f, t) : t \in Threads }

\* the sequence without its i-th element
Without(seq, i) == [j \in 1..(Len(seq) - 1) |-> IF j < i THEN seq[j] ELSE seq[j + 1]]

\* a step of a left-over thread or of its remote command; the frame is
\* dropped when its last thread has ended
LeftOverStep ==
    /\ \E i \in 1..Len(old) :
         \E g \in FrameSteps(old[i]) :
            old' = IF FrameAlive(g) THEN [old EXCEPT ![i] = g] ELSE Without(old, i)
    /\ UNCHANGED <<wifiVars, execVars, streamVars, threadVars, sinkVars>>

Execute ==
    \/ ComposeStep
    \/ ExecCommand
    \/ CloseStdin
    \/ CreateThreads
    \/ StartThread
    \/ JoinThread
    \/ Return

\* every step of an invocation in progress
Running == Execute \/ Remote \/ \E t \in Threads : Pump(t)

Next ==
    \/ Call
    \/ CallerResumes
    \/ LeftOverStep
    \/ ComposeStep
    \/ ExecCommand
    \/ CloseStdin
    \/ CreateThreads
    \/ StartThread
    \/ JoinThread
    \/ Return
    \/ RemoteExit
    \/ \E s \in Streams : RemoteWrite(s)
    \/ \E t \in Threads : PumpEnter(t)
    \/ \E t \in Threads : PumpRead(t)
    \/ \E t \in Threads : PumpLog(t)
    \/ \E t \in Threads : PumpExitLog(t)
    \/ \E t \in Threads : PumpExitFile(t)

Spec == Init /\ [][Next]_vars

\* threads and the remote process are scheduled fairly; the caller need not
\* call again
Fairness ==
    /\ WF_vars(Execute)
    /\ WF_vars(Remote)
    /\ WF_vars(LeftOverStep)
    /\ \A t \in Threads : WF_vars(Pump(t))

FairSpec == Spec /\ Fairness

\* the calls during which nothing fails, under fair scheduling
NextNoFaults ==
    \/ CallNoFaults
    \/ CallerResumes
    \/ ComposeStep
    \/ ExecCommand
    \/ CloseStdin
    \/ CreateThreads
    \/ StartThread
    \/ JoinThread
    \/ Return
    \/ RemoteExit
    \/ \E s \in Streams : RemoteWrite(s)
    \/ \E t \in Threads : PumpEnter(t)
    \/ \E t \in Threads : PumpRead(t)
    \/ \E t \in Threads : PumpLog(t)
    \/ \E t \in Threads : PumpExitLog(t)
    \/ \E t \in Threads : PumpExitFile(t)

FairNoFaultSpec == Init /\ [][NextNoFaults]_vars /\ Fairness

(***************************************************************************)
(* WiFiChannel.__init__ (wifi.py): the set-up of the physical layer, lines *)
(* 143-153. Each Set call on wifi_phy_helper is one step.                  *)
(***************************************************************************)
\* the truth value Python gives an optional integer: None and 0 are false
Truthy(x) == x.some /\ x.v # 0

\* one call wifi_phy_helper.Set(name, value)
PhySet(at, name, value, next) ==
    /\ wpc = at
    /\ phy' = Append(phy, [name |-> name, value |-> value])
    /\ wpc' = next
    /\ UNCHANGED <<wargs, old, execVars, streamVars, threadVars, sinkVars>>

\* line 144
SetChannelWidth ==
    PhySet("ChannelWidth", "ChannelWidth", wargs.channel_width, "Frequency")

\* lines 145-148: if self.frequency: ... else: ...
SetFrequencyOrChannel ==
    IF Truthy(wargs.frequency)
      THEN PhySet("Frequency", "Frequency", wargs.frequency.v, "Antennas")
      ELSE PhySet("Frequency", "ChannelNumber", wargs.channel, "Antennas")

\* lines 149-151
SetAntennas ==
    PhySet("Antennas", "Antennas", wargs.antennas, "MaxSupportedTxSpatialStreams")
SetMaxTxStreams ==
    PhySet("MaxSupportedTxSpatialStreams", "MaxSupportedTxSpatialStreams",
           wargs.antennas, "MaxSupportedRxSpatialStreams")
SetMaxRxStreams ==
    PhySet("MaxSupportedRxSpatialStreams", "MaxSupportedRxSpatialStreams",
           wargs.antennas, "TxPowerStart")

\* lines 152-153
SetTxPowerStart ==
    PhySet("TxPowerStart", "TxPowerStart", wargs.tx_power, "TxPowerEnd")
SetTxPowerEnd ==
    PhySet("TxPowerEnd", "TxPowerEnd", wargs.tx_power, "done")

\* lines 120-143: the arguments are stored and the helper is created with
\* no attribute set yet; no executor is in use
WiFiInit ==
    /\ wargs \in WiFiArgs
    /\ wpc = "ChannelWidth"
    /\ phy = <<>>
    /\ sudo = FALSE
    /\ calls = 0
    /\ pc = "ready"
    /\ req = PlainRequest
    /\ env = QuietEnv
    /\ Fresh
    /\ old = <<>>

WiFiNext ==
    \/ SetChannelWidth
    \/ SetFrequencyOrChannel
    \/ SetAntennas
    \/ SetMaxTxStreams
    \/ SetMaxRxStreams
    \/ SetTxPowerStart
    \/ SetTxPowerEnd

WiFiSpec == WiFiInit /\ [][WiFiNext]_vars

(***************************************************************************)
(* Properties.                                                             *)
(***************************************************************************)
\* the call meets no transport, thread, read or sink failure and the remote
\* command ends
NoFaults ==
    /\ ~env.transportFails
    /\ ~env.hangs
    /\ env.startFails = "none"
    /\ \A s \in Streams : env.fault[s] = NoFault

\* the severity the executor logs stream s at
LevelOf(s) == IF s = "stdout" THEN "INFO" ELSE "ERROR"

\* everything the remote command writes to s
AllRecords(s) == Records(LevelOf(s), s, Total(s))

IsPrefix(a, b) == Len(a) <= Len(b) /\ \A i \in 1..Len(a) : a[i] = b[i]

\* the remote command has a line to write to s and the buffer of s is full
RemoteBlockedOn(s) ==
    /\ chan # 0
    /\ rpos < Len(env.script)
    /\ env.script[rpos + 1] = s
    /\ Len(buf[s]) = BufCap

\* stream s is at end of stream and every line written to it was read
Drained(s) == eof[s] /\ buf[s] = <<>> /\ Written(s) = Total(s)

\* execute() is inside a Thread.join() call
Joining ==
    /\ pc = "threads"
    /\ stmt <= Len(ThreadStatements)
    /\ ThreadStatements[stmt].op = "join"

\* C1: without failures, each sink only ever holds the first lines of its own
\* stream, in order and at the stream's level, and when execute() has
\* returned it holds all of them.
C1_LinesDelivered ==
    NoFaults =>
      /\ \A s \in Streams : IsPrefix(sink[s], AllRecords(s))
      /\ pc = "returned" => \A s \in Streams : sink[s] = AllRecords(s)

C1_Witness ==
    /\ pc = "returned"
    /\ NoFaults
    /\ env.script = <<"stdout", "stderr", "stderr", "stdout">>
    /\ Len(sink["stdout"]) = 2
    /\ Len(sink["stderr"]) = 2

\* C2: without failures, whenever the remote command is blocked on a full
\* buffer, execute() or one of the pumps can take a step, and every call
\* that starts leads to execute() returning.
C2_NoDeadlock ==
    /\ [](NoFaults /\ (\E s \in Streams : RemoteBlockedOn(s))
            => ENABLED (Execute \/ \E t \in Threads : Pump(t)))
    /\ (pc = "idle" /\ NoFaults) ~> (pc = "returned")

C2_Witness ==
    /\ NoFaults
    /\ Total("stderr") > BufCap
    /\ RemoteBlockedOn("stderr")
    /\ Written("stdout") < Total("stdout")
    /\ tpc["out_thread"] = "loop"
    /\ tpc["err_thread"] = "loop"

\* C3: whenever execute() is inside a join, both threads have been started.
C3_StartedBeforeJoin ==
    Joining => \A t \in Threads : tpc[t] \notin {"none", "created"}

C3_Witness ==
    /\ Joining
    /\ ThreadStatements[stmt].t = "out_thread"
    /\ tpc["out_thread"] = "loop"
    /\ tpc["err_thread"] = "loop"

\* C4: whenever execute() has returned, both streams are at end of stream
\* and every line written to them has been read.
C4_ReturnedMeansDrained ==
    pc = "returned" => \A s \in Streams : Drained(s)

\* C5: once the sink of one stream has refused a line and nothing in the
\* call can move any more, the sink of the other stream, whose pump met no
\* failure, holds every line of its stream.
C5_FailureIsolated ==
    \A t \in Threads :
      (/\ terr[t] = "sink"
       /\ \A u \in Threads \ {t} : env.fault[targs[u].file] = NoFault
       /\ ~Finished
       /\ ~ENABLED Running)
      => \A u \in Threads \ {t} : sink[targs[u].logfile] = AllRecords(targs[u].file)

\* C6: execute() never returns normally after a pump was ended by a read
\* error.
C6_PumpFailureRaised ==
    pc = "returned" => \A t \in Threads : terr[t] # "read"

\* C7: when exec_command raises, the call ends raising the transport error:
\* no thread exists, nothing was acquired, written or closed, no channel is
\* open.
C7_TransportErrorPropagates ==
    (env.transportFails /\ submitted # <<>>) =>
      /\ pc = "raised"
      /\ result = [kind |-> "raised", value |-> None, error |-> "transport"]
      /\ chan = 0
      /\ stdinCloses = 0
      /\ \A t \in Threads : tpc[t] = "none"
      /\ \A s \in Streams :
           /\ sink[s] = <<>>
           /\ acq[s] = 0
           /\ writes[s] = 0
           /\ reads[s] = 0
           /\ closes[s] = 0

C7_Witness ==
    /\ pc = "raised"
    /\ env.transportFails
    /\ Len(submitted) = 1
    /\ req.user.some

\* C8: when execute() returns after a remote command that exited with a
\* status other than zero, and no failure occurred, the value it returns
\* carries that status.
C8_ExitStatusReported ==
    (pc = "returned" /\ NoFaults /\ exitStatus.some /\ exitStatus.v # 0)
      => result.value = exitStatus

\* C9: a sink is released at most once, never without having been acquired,
\* and a pump that acquired its sink has released it when it is past the
\* release of its with block.
C9_SinkReleasedOnce ==
    \A t \in Threads :
      tpc[t] \notin {"none", "created"} =>
        LET k == targs[t].logfile IN
        /\ rel[k] <= acq[k]
        /\ rel[k] <= 1
        /\ (tpc[t] \in {"exit_file", "done"} /\ acq[k] = 1) => rel[k] = 1

C9_Witness ==
    /\ tpc["err_thread"] = "done"
    /\ terr["err_thread"] = "sink"
    /\ writes["stderr"] = 2
    /\ acq["stderr"] = 1
    /\ rel["stderr"] = 1
    /\ tpc["out_thread"] = "done"
    /\ terr["out_thread"] = "none"
    /\ rel["stdout"] = 1

\* C10: without a user, the line handed to exec_command is the stringified
\* command, wrapped as [shell, "-c", line] and stringified again when a shell
\* is given; its first word is neither sudo nor su, whatever the flag.
C10_NoElevation ==
    (submitted # <<>> /\ ~req.user.some) =>
      LET line == stringify_shell_arguments(req.command) IN
      /\ Len(submitted) = 1
      /\ submitted[1] = IF req.shell.some
                          THEN stringify_shell_arguments(List(<<req.shell.v, S_dash_c, line>>))
                          ELSE line
      /\ (req.command = List(<<S_echo, S_hi>>) /\ ~req.shell.some)
           => submitted[1] = <<"e", "c", "h", "o", " ", "h", "i">>
      /\ (req.command = Str(S_echo_hi) /\ ~req.shell.some)
           => submitted[1] = S_echo_hi
      /\ (req.command = List(<<S_echo, S_hi>>) /\ req.shell = Some(S_bash))
           => submitted[1] = <<"/", "b", "i", "n", "/", "b", "a", "s", "h", " ",
                               "-", "c", " ", "'", "e", "c", "h", "o", " ", "h", "i", "'">>
      /\ Head(split_shell_arguments(Str(submitted[1]))) \notin {S_sudo, S_su}

C10_Witness ==
    /\ submitted # <<>>
    /\ sudo
    /\ ~req.user.some
    /\ req.shell = Some(S_bash)
    /\ req.command = List(<<S_echo, S_hi>>)


\* whether `command` after line 43 has been computed in this call
Composed == pc \notin {"ready", "idle"}

\* the -s flag of both elevation styles
ShellFlag == IF req.shell.some THEN <<S_dash_s, req.shell.v>> ELSE <<>>

\* a token list all of whose tokens are non-empty and free of whitespace,
\* quotes and shell metacharacters
PlainTokens(command) ==
    /\ command.kind = "list"
    /\ \A i \in 1..Len(command.toks) :
          /\ command.toks[i] # <<>>
          /\ \A j \in 1..Len(command.toks[i]) : command.toks[i][j] \in SafeChars

\* C11: with a user on an executor built with the sudo flag, the composed
\* tokens are sudo, -u, the user, then -s and the shell exactly when a shell
\* is given, then the words the joined command line splits into; for a
\* command of plain tokens these words are the original tokens, so
\* ["echo","hi"] for alice without a shell gives sudo -u alice echo hi.
C11_SudoElevation ==
    (Composed /\ req.user.some /\ sudo) =>
        /\ composed = List(<<S_sudo, S_dash_u, req.user.v>> \o ShellFlag
                \o split_shell_arguments(Str(stringify_shell_arguments(req.command))))
        /\ PlainTokens(req.command) =>
              composed = List(<<S_sudo, S_dash_u, req.user.v>> \o ShellFlag
                              \o req.command.toks)
        /\ (req.command = List(<<S_echo, S_hi>>) /\ req.user = Some(S_alice)
                /\ ~req.shell.some) =>
              composed = List(<<S_sudo, S_dash_u, S_alice, S_echo, S_hi>>)

C11_Witness ==
    /\ pc = "opened"
    /\ sudo
    /\ req = [command |-> List(<<S_echo, S_hi>>), user |-> Some(S_alice), shell |-> None]
    /\ composed = List(<<S_sudo, S_dash_u, S_alice, S_echo, S_hi>>)

\* C12: with a user on an executor built without the sudo flag, the composed
\* tokens are su, the user, then -s and the shell exactly when a shell is
\* given, then -c and the joined command line as one single token, so
\* ["echo","hi"] for bob without a shell gives su bob -c "echo hi"; which of
\* the two elevation styles is used follows the flag of the constructor
\* alone, and no step of execute() changes that flag.
C12_SuElevation ==
    /\ [](( Composed /\ req.user.some /\ ~sudo) =>
            /\ composed = List(<<S_su, req.user.v>> \o ShellFlag
                    \o <<S_dash_c, stringify_shell_arguments(req.command)>>)
            /\ (req.command = List(<<S_echo, S_hi>>) /\ req.user = Some(S_bob)
                    /\ ~req.shell.some) =>
                  composed = List(<<S_su, S_bob, S_dash_c, S_echo_hi>>))
    /\ []((Composed /\ req.user.some) =>
            (composed.toks[1] = S_sudo <=> sudo) /\ (composed.toks[1] = S_su <=> ~sudo))
    /\ [][sudo' = sudo]_vars

C12_Witness ==
    /\ pc = "opened"
    /\ ~sudo
    /\ req = [command |-> List(<<S_echo, S_hi>>), user |-> Some(S_bob), shell |-> None]
    /\ composed = List(<<S_su, S_bob, S_dash_c, S_echo_hi>>)
    /\ submitted = << <<"s","u"," ","b","o","b"," ","-","c"," ","'","e","c","h","o"," ","h","i","'">> >>

\* execute() has reached the end of line 59: both joins have returned
BothJoined == pc = "threads" /\ stmt > Len(ThreadStatements)

\* C13: execute() has no deadline. While the remote command neither exits
\* nor closes its streams, the streams never reach end of file and the
\* joins of lines 58-59 never both return: execute() stays in its joins
\* and never returns.
C13_NoDeadline ==
    (env.hangs /\ chan # 0) =>
        /\ \A s \in Streams : ~eof[s] /\ exitStatus = None
        /\ ~BothJoined
        /\ pc # "returned"

\* the values wifi_phy_helper.Set was called with for attribute name
PhyValues(name) == { phy[i].value : i \in { j \in 1..Len(phy) : phy[j].name = name } }

\* the constructor is past lines 145-148
PastFrequencyBranch == wpc \notin {"none", "ChannelWidth", "Frequency"}

\* C14: once the constructor is past lines 145-148, every frequency that
\* was passed as something other than None has been set as "Frequency" and
\* "ChannelNumber" has not been set; without a frequency "ChannelNumber" has
\* been set to the channel and "Frequency" has not; exactly one of the two
\* attributes has been set.
C14_FrequencyOverridesChannel ==
    PastFrequencyBranch =>
        /\ wargs.frequency.some =>
             PhyValues("Frequency") = {wargs.frequency.v} /\ PhyValues("ChannelNumber") = {}
        /\ ~wargs.frequency.some =>
             PhyValues("ChannelNumber") = {wargs.channel} /\ PhyValues("Frequency") = {}
        /\ (PhyValues("Frequency") = {}) # (PhyValues("ChannelNumber") = {})

\* thread t has been started and has not ended
Alive(t) == tpc[t] \in {"enter", "loop", "log", "exit_log", "exit_file"}

\* a later call has returned while a thread of an earlier call is running
OverlappingCalls ==
    /\ pc = "returned"
    /\ old # <<>>
    /\ \E i \in 1..Len(old) : old[i].call < calls /\ FrameAlive(old[i])

\* C15: when execute() has completed, by returning or by raising, neither
\* pump is still running: every thread that was started has ended (and was
\* joined) on every exit path, also when starting the second thread fails;
\* so no thread of an earlier call is ever running during a later one.
C15_NoPumpOutlives ==
    /\ Finished => \A t \in Threads : ~Alive(t)
    /\ old = <<>>

\* C16: the input stream of the channel is closed after the channel has been
\* opened and before either pump is started: it is closed only on an open
\* channel, at most once, and whenever a thread has been started or a pump
\* has asked its stream for a line, it has been closed.
C16_StdinClosedFirst ==
    /\ stdinCloses <= 1
    /\ stdinCloses = 1 => chan # 0 /\ submitted # <<>>
    /\ \A t \in Threads : tpc[t] \notin {"none", "created"} => stdinCloses = 1
    /\ \A s \in Streams : reads[s] > 0 => stdinCloses = 1
    /\ (pc = "threads" /\ stmt > 1) => stdinCloses = 1

\* a pump has read a line, the other thread is not started yet
C16_Witness ==
    /\ stdinCloses = 1
    /\ tpc["out_thread"] = "log"
    /\ reads["stdout"] = 1
    /\ tpc["err_thread"] = "created"

\* the phase of the invocation: 0 no invocation, 1 Idle, 2 Composed,
\* 3 ChannelOpen (channel open, no thread started), 4 Draining (a thread
\* started, a join outstanding), 5 Joined, 6 Completed, 7 failed
PhaseRank ==
    CASE pc = "ready" -> 0
      [] pc = "idle" -> 1
      [] pc = "composed" -> 2
      [] pc \in {"opened", "stdin_closed"} -> 3
      [] pc = "threads" /\ stmt = 1 -> 3
      [] pc = "threads" /\ stmt > 1 /\ stmt <= Len(ThreadStatements) -> 4
      [] pc = "threads" /\ stmt > Len(ThreadStatements) -> 5
      [] pc = "returned" -> 6
      [] pc = "raised" -> 7

\* one step of the phase: none, the next phase, out of Composed, ChannelOpen
\* or Draining into failure, or from a finished invocation to none
PhaseStep ==
    \/ PhaseRank' = PhaseRank
    \/ PhaseRank < 6 /\ PhaseRank' = PhaseRank + 1
    \/ PhaseRank \in {2, 3, 4} /\ PhaseRank' = 7
    \/ PhaseRank \in {6, 7} /\ PhaseRank' = 0 /\ calls' = calls

\* C17: an invocation goes through Idle, Composed, ChannelOpen, Draining,
\* Joined, Completed in this order, one phase at a time and never backwards;
\* it leaves this path only by failing, and a completed or failed invocation
\* takes no further step. The command is composed before the transport is
\* called, and the transport is asked to run the command at most once per
\* invocation, also when it fails.
C17_PhaseOrder ==
    /\ [][PhaseStep]_vars
    /\ [][Finished => (Finished' /\ result' = result /\ submitted' = submitted)
                      \/ (pc' = "ready" /\ submitted' = <<>>)]_vars
    /\ [](Len(submitted) <= 1)
    /\ [](submitted # <<>> => PhaseRank >= 2 /\ submitted[1] = stringify_shell_arguments(composed))
    /\ [](PhaseRank \in {3, 4, 5, 6} => submitted # <<>> /\ chan # 0)

\* a second invocation has completed
C17_Witness ==
    /\ PhaseRank = 6
    /\ calls = 2
    /\ Len(submitted) = 1
    /\ \A t \in Threads : tpc[t] = "done"

\* C18: an invocation opens one channel, and only one: the channel of the
\* n-th invocation is the n-th channel of the session, opened by the single
\* exec_command call of that invocation, so no channel serves two
\* invocations; the two threads of the invocation are given the stdout and
\* the stderr stream of that very channel, one each, and a thread that an
\* earlier invocation left running stays on the channel of that invocation.
C18_ChannelExclusive ==
    /\ chan \in {0, calls}
    /\ chan # 0 <=> (Len(submitted) = 1 /\ ~env.transportFails)
    /\ (PhaseRank \in {3, 4, 5, 6}) => chan = calls
    /\ \A t \in Threads :
         tpc[t] # "none" =>
             /\ tchan[t] = chan
             /\ tchan[t] = calls
             /\ targs[t].file \in Streams
    /\ (\A t \in Threads : tpc[t] # "none") =>
             targs["out_thread"].file # targs["err_thread"].file
    /\ \A s \in Streams : reads[s] > 0 => \E t \in Threads : targs[t].file = s /\ tchan[t] = calls
    /\ \A i \in 1..Len(old) :
         /\ pc # "ready" => old[i].call < calls
         /\ \A t \in Threads :
              old[i].tpc[t] # "none" =>
                  old[i].tchan[t] = old[i].call /\ old[i].targs[t].file \in Streams

\* the pumps of the second invocation read the streams of the second channel
C18_Witness ==
    /\ calls = 2
    /\ chan = 2
    /\ \A t \in Threads : tchan[t] = 2 /\ tpc[t] = "loop"
    /\ \A s \in Streams : reads[s] > 0

\* C19: when execute() returns, the input stream and both output streams of
\* its channel have each been closed exactly once. A pump that has ended,
\* on whichever path (end of stream, read error, sink write error, sink not
\* acquired), has closed its own stream once, and a stream is closed by
\* nothing but the pump that was given it.
C19_StreamsReleased ==
    /\ pc = "returned" => stdinCloses = 1 /\ \A s \in Streams : closes[s] = 1
    /\ \A s \in Streams : closes[s] <= 1
    /\ \A t \in Threads : tpc[t] = "done" => closes[targs[t].file] = 1
    /\ \A s \in Streams :
         closes[s] > 0 => \E t \in Threads : targs[t].file = s /\ tpc[t] = "done"

\* execute() has returned from a call in which the stdout sink could not be
\* acquired
C19_Witness ==
    /\ pc = "returned"
    /\ terr["out_thread"] = "acquire"
    /\ terr["err_thread"] = "none"
    /\ stdinCloses = 1
    /\ \A s \in Streams : closes[s] = 1

\* what the next step of a running pump waits for: nothing, except in its
\* read, which waits for a line, the end or a failure of its own stream
OwnStreamReady(t) ==
    tpc[t] = "loop" =>
        \/ buf[targs[t].file] # <<>>
        \/ eof[targs[t].file]
        \/ env.fault[targs[t].file] = [kind |-> "read", at |-> reads[targs[t].file] + 1]

\* C20: the two pumps are not synchronised with each other: a running pump
\* can take its next step exactly when its own stream lets it, whatever the
\* other pump and execute() have done, so that neither delivery order of a
\* stdout line and a stderr line is excluded (a stdout line can be in its
\* sink while a stderr line written earlier is not yet, and the other way
\* round).
C20_NoCrossStreamOrder ==
    \A t \in Threads : Alive(t) => (ENABLED Pump(t) <=> OwnStreamReady(t))

\* the remote command wrote to stderr first and to stdout second; the stdout
\* line has been logged and the stderr line has not
C20_Witness ==
    /\ env.script = <<"stderr", "stdout">>
    /\ NoFaults
    /\ rpos = 2
    /\ sink["stdout"] = AllRecords("stdout")
    /\ sink["stderr"] = <<>>
    /\ Alive("err_thread")

\* the opposite order: written to stdout first, the stderr line logged first
C20_WitnessOpposite ==
    /\ env.script = <<"stdout", "stderr">>
    /\ NoFaults
    /\ rpos = 2
    /\ sink["stderr"] = AllRecords("stderr")
    /\ sink["stdout"] = <<>>
    /\ Alive("out_thread")

=============================================================================
